---- MODULE Spec2Model ----
(***************************************************************************)
(* Pomodoro timer: the Countdown hook (useCountdown, in its local-clock    *)
(* and its timer-service variants), the Session Cycle hook (usePomodoro)   *)
(* and their composition in App.                                           *)
(*                                                                         *)
(* An event handler, the render that follows it and the effects of that    *)
(* render are one step.  The exception is usePomodoro taken alone, where   *)
(* several calls may be batched before the render that refreshes stateRef. *)
(***************************************************************************)
EXTENDS Integers, Sequences, FiniteSets, Bags, TLC

\* ------------------------------------------------------------------ bounds

\* Largest `minutes` handed to setTime / largest focusMinutes, breakMinutes.
MaxMinutes == 2

\* Largest number of timer-service calls of a stand-alone hook awaiting their
\* answer.
MaxCalls == 1

\* Largest number of timer-service calls of App awaiting their answer (the
\* session-change effect sends two at once).
MaxAppCalls == 2

\* Largest number of onComplete invocations followed after one start().
MaxCompletions == 2

\* Largest sessionCount for which a further increment is tried.
MaxCycles == 2

\* The `seconds` arguments tried by setTime.
SecondsArgs == {0, 59}

\* The initial (minutes, seconds) a stand-alone hook is mounted with.
InitialTimes == {<<0, 3>>}

\* remaining_ms payloads of timer://tick and answers of get_timer_remaining.
RemainingMs == {0, 1, 1500, 59000}

\* get_timer_remaining's answer when no timer is active (null).
Null == 0 - 1

\* ------------------------------------------------------------------ state

VARIABLES
    clock,                \* "local" (setInterval) or "service" (timer service)
    countdown,            \* useCountdown's state: totalSeconds, isRunning, isPaused, isEnded
    initialTotalSeconds,  \* initialMinutes * 60 + initialSeconds of the last render
    intervalRef,          \* local clock: TRUE iff intervalRef.current is an interval id
    calls,                \* timer service: bag of invoke() promises not settled yet
    state,                \* usePomodoro's state, pending updates applied
    stateRef,             \* usePomodoro's stateRef.current (state of the last render)
    invoked,              \* callbacks usePomodoro invoked in the last step, in order
    config,               \* usePomodoro's config: focusMinutes, breakMinutes
    focusMinutes,         \* App state
    breakMinutes,         \* App state
    run,                  \* observations since the last start(): see NewRun
    completed             \* App: runs of the countdown that invoked onComplete, since mount

vars == <<clock, countdown, initialTotalSeconds, intervalRef, calls, state,
          stateRef, invoked, config, focusMinutes, breakMinutes, run, completed>>

countdownVars == <<clock, countdown, initialTotalSeconds, intervalRef, calls, run>>
pomodoroVars == <<state, stateRef, invoked, config>>
appVars == <<focusMinutes, breakMinutes, completed>>

\* The phase the flags of a countdown state c stand for.
Phase(c) ==
    IF c.isEnded THEN "Ended"
    ELSE IF c.isPaused THEN "Paused"
    ELSE IF c.isRunning THEN "Running"
    ELSE "Idle"

\* No undisturbed run: run.from when the last start() was not issued from Idle,
\* or when another operation was called since.
NoRun == 0 - 1

\* run.started: start() has been called since mount;
\* run.op: the last operation of the hook that took effect ("none" at mount);
\* run.was: the phase that operation found;
\* run.from: local clock: remaining seconds at the last start() if it was
\*           issued from Idle and only interval firings followed, else NoRun;
\* run.resumed: the last start() was issued while paused and not ended;
\* run.ticks: interval firings since that start() (0 when run.from is NoRun);
\* run.completions: invocations of onComplete since the last start();
\* run.dones: timer://done notifications since the last start().
NewRun(from, resumed, op, was) ==
    [started |-> TRUE, op |-> op, was |-> was, from |-> from, resumed |-> resumed,
     ticks |-> 0, completions |-> 0, dones |-> 0]

\* The observations at mount.
Mounted ==
    [started |-> FALSE, op |-> "none", was |-> "Idle", from |-> NoRun, resumed |-> FALSE,
     ticks |-> 0, completions |-> 0, dones |-> 0]

\* The observations a start() issued in state c begins with.
StartedFrom(c) ==
    NewRun(IF ~c.isRunning /\ ~c.isPaused /\ ~c.isEnded /\ clock = "local"
           THEN c.totalSeconds ELSE NoRun,
           c.isPaused /\ ~c.isEnded,
           IF clock = "local" THEN "start" ELSE run.op,
           IF clock = "local" THEN Phase(c) ELSE run.was)

\* The operation op took effect.
Did(r, op) ==
    [r EXCEPT !.op = op, !.was = Phase(countdown), !.from = NoRun, !.ticks = 0]

Ticked(r) == IF r.from = NoRun THEN r ELSE [r EXCEPT !.ticks = @ + 1]

Completed(r) == [r EXCEPT !.completions = @ + 1]

\* ------------------------------------------------------- countdown: state

Countdown(total, running, paused, ended) ==
    [totalSeconds |-> total, isRunning |-> running, isPaused |-> paused, isEnded |-> ended]

IsIdle(c) == ~c.isRunning /\ ~c.isPaused /\ ~c.isEnded

\* Math.floor(totalSeconds / 60)
minutes(c) == c.totalSeconds \div 60

\* totalSeconds % 60: the remainder takes the sign of totalSeconds
seconds(c) ==
    IF c.totalSeconds >= 0 THEN c.totalSeconds % 60 ELSE 0 - ((0 - c.totalSeconds) % 60)

\* ------------------------------------------------ countdown: local clock

\* Mutant of start: a resume restarts from the initial time.
start_restarts(c, initial) ==
    IF c.isEnded \/ c.isPaused
    THEN [c EXCEPT !.totalSeconds = initial, !.isEnded = FALSE,
                   !.isRunning = TRUE, !.isPaused = FALSE]
    ELSE [c EXCEPT !.isRunning = TRUE, !.isPaused = FALSE]

\* Mutant of start: an ended countdown is started as it is.
start_keepsEnded(c, initial) == [c EXCEPT !.isRunning = TRUE, !.isPaused = FALSE]

\* start(): reinitialize when ended, then run.
start(c, initial) ==
    IF c.isEnded
    THEN [c EXCEPT !.totalSeconds = initial, !.isEnded = FALSE,
                   !.isRunning = TRUE, !.isPaused = FALSE]
    ELSE [c EXCEPT !.isRunning = TRUE, !.isPaused = FALSE]

pause(c) == [c EXCEPT !.isPaused = TRUE, !.isRunning = FALSE]

\* Mutant of stop: the remaining time is cleared.
stop_clearsTime(c) ==
    [c EXCEPT !.totalSeconds = 0, !.isRunning = FALSE, !.isPaused = FALSE, !.isEnded = TRUE]

stop(c) == [c EXCEPT !.isRunning = FALSE, !.isPaused = FALSE, !.isEnded = TRUE]

reset(c, initial) == Countdown(initial, FALSE, FALSE, FALSE)

\* Mutant of setTime: the paused flag survives.
setTime_keepsPaused(c, mins, secs) == Countdown(mins * 60 + secs, FALSE, c.isPaused, FALSE)

setTime(c, mins, secs) == Countdown(mins * 60 + secs, FALSE, FALSE, FALSE)

\* The setInterval callback's updater still has seconds to count.
TickCounts(c) == c.totalSeconds > 0

\* Mutant of tick: the callback counts two seconds at a time.
tick_twoAtOnce(c) ==
    IF TickCounts(c)
    THEN [c EXCEPT !.totalSeconds = c.totalSeconds - 2]
    ELSE [c EXCEPT !.totalSeconds = 0, !.isRunning = FALSE, !.isEnded = TRUE]

\* Mutant of tick: the callback counts down whatever remains.
tick_belowZero(c) == [c EXCEPT !.totalSeconds = c.totalSeconds - 1]

\* The setInterval callback: count one second down, or, at zero, end the run
\* (onComplete is invoked exactly when TickCounts is false).
tick(c) ==
    IF TickCounts(c)
    THEN [c EXCEPT !.totalSeconds = c.totalSeconds - 1]
    ELSE [c EXCEPT !.totalSeconds = 0, !.isRunning = FALSE, !.isEnded = TRUE]

\* Mutant of IntervalAfter: the effect never sets an interval.
IntervalAfter_neverSet(old, new, cleared) == FALSE

\* Mutant of IntervalAfter: the interval is never cleared once set.
IntervalAfter_leaks(old, new, cleared) == intervalRef \/ (new.isRunning /\ ~new.isPaused)

\* The countdown effect, re-run when isRunning or isPaused changed: clear the
\* interval, and set a new one only when running and not paused.  `cleared`:
\* the handler itself called clearTimer().
IntervalAfter(old, new, cleared) ==
    IF <<new.isRunning, new.isPaused>> # <<old.isRunning, old.isPaused>>
    THEN new.isRunning /\ ~new.isPaused
    ELSE intervalRef /\ ~cleared

\* What a step of the stand-alone local-clock hook leaves: the new countdown
\* state, the interval its effect keeps, and the observations.
LocalStep(c, cleared, r) ==
    /\ clock = "local"
    /\ countdown' = c
    /\ intervalRef' = IntervalAfter(countdown, c, cleared)
    /\ run' = r
    /\ UNCHANGED <<clock, initialTotalSeconds, calls>>
    /\ UNCHANGED <<pomodoroVars, appVars>>

LocalStart ==
    LocalStep(start(countdown, initialTotalSeconds), FALSE, StartedFrom(countdown))

LocalPause == LocalStep(pause(countdown), FALSE, Did(run, "pause"))

LocalStop == LocalStep(stop(countdown), FALSE, Did(run, "stop"))

LocalReset ==
    LocalStep(reset(countdown, initialTotalSeconds), FALSE, Did(run, "reset"))

LocalSetTime ==
    \E mins \in 0..MaxMinutes, secs \in SecondsArgs :
        LocalStep(setTime(countdown, mins, secs), FALSE, Did(run, "setTime"))

\* The interval fires: only while intervalRef holds an interval.
LocalTick ==
    /\ intervalRef
    /\ LocalStep(tick(countdown), ~TickCounts(countdown),
                 IF TickCounts(countdown) THEN Ticked(run) ELSE Completed(Ticked(run)))

NextLocal ==
    \/ LocalStart
    \/ LocalPause
    \/ LocalStop
    \/ LocalReset
    \/ LocalSetTime
    \/ LocalTick

\* ---------------------------------------------- countdown: timer service

\* Math.ceil(ms / 1000), for ms >= 0
CeilSeconds(ms) == (ms + 999) \div 1000

\* An invoke() promise not settled yet: the operation awaiting it, the command
\* sent, and what the operation's closure captured for its continuation
\* (start_timer: <<totalMs>>; reset: <<initialTotalSeconds>>; setTime:
\* <<minutes, seconds>>; syncTimerState: <<isRunning, isPaused>> as 1 / 0).
Call(op, cmd, args) == [op |-> op, cmd |-> cmd, args |-> args]

Flag(b) == IF b THEN 1 ELSE 0

\* Mutant of StartCall: a paused countdown is started afresh.
StartCall_neverResumes(c, initial) ==
    IF c.isEnded THEN Call("start", "start_timer", <<initial * 1000>>)
    ELSE Call("start", "start_timer", <<c.totalSeconds * 1000>>)

\* The command start() sends: a fresh start_timer from the initial time when
\* ended, resume_timer when paused, else start_timer from the current time.
StartCall(c, initial) ==
    IF c.isEnded THEN Call("start", "start_timer", <<initial * 1000>>)
    ELSE IF c.isPaused THEN Call("start", "resume_timer", <<>>)
    ELSE Call("start", "start_timer", <<c.totalSeconds * 1000>>)

\* What start() sets before it awaits the service.
StartBefore(c, initial) ==
    IF c.isEnded
    THEN [c EXCEPT !.totalSeconds = initial, !.isEnded = FALSE]
    ELSE c

\* What an operation sets once its command has resolved.
Resolved(c, call) ==
    CASE call.op = "start" -> [c EXCEPT !.isRunning = TRUE, !.isPaused = FALSE]
      [] call.op = "pause" -> [c EXCEPT !.isPaused = TRUE, !.isRunning = FALSE]
      [] call.op = "stop" ->
            [c EXCEPT !.isRunning = FALSE, !.isPaused = FALSE, !.isEnded = TRUE]
      [] call.op = "reset" -> Countdown(call.args[1], FALSE, FALSE, FALSE)
      [] call.op = "setTime" ->
            Countdown(call.args[1] * 60 + call.args[2], FALSE, FALSE, FALSE)

\* syncTimerState finds the time up: remaining is 0 and its closure saw the
\* countdown running or paused.  It then invokes onComplete.
SyncCompletes(call, remaining) ==
    /\ remaining # Null
    /\ CeilSeconds(remaining) = 0
    /\ (call.args[1] = 1 \/ call.args[2] = 1)

\* syncTimerState once get_timer_remaining has answered `remaining`.
Synced(c, call, remaining) ==
    IF remaining # Null
    THEN IF SyncCompletes(call, remaining)
         THEN Countdown(CeilSeconds(remaining), FALSE, FALSE, TRUE)
         ELSE [c EXCEPT !.totalSeconds = CeilSeconds(remaining)]
    ELSE IF call.args[1] = 1 /\ call.args[2] = 0
         THEN [c EXCEPT !.isRunning = FALSE, !.isEnded = TRUE]
         ELSE c

\* The timer://tick listener.
ticked(c, remaining_ms) == [c EXCEPT !.totalSeconds = CeilSeconds(remaining_ms)]

\* The timer://done listener (it also invokes onComplete).
done(c) == [c EXCEPT !.totalSeconds = 0, !.isRunning = FALSE, !.isEnded = TRUE]

CanCall == BagCardinality(calls) < MaxCalls

CanComplete == run.completions < MaxCompletions

\* What a step of the stand-alone service-backed hook leaves.
ServiceStep(c, pending, r) ==
    /\ clock = "service"
    /\ countdown' = c
    /\ calls' = pending
    /\ run' = r
    /\ UNCHANGED <<clock, initialTotalSeconds, intervalRef>>
    /\ UNCHANGED <<pomodoroVars, appVars>>

Sent(call) == calls (+) SetToBag({call})

Settled(call) == calls (-) SetToBag({call})

ServiceStart ==
    /\ CanCall
    /\ ServiceStep(StartBefore(countdown, initialTotalSeconds),
                   Sent(StartCall(countdown, initialTotalSeconds)), StartedFrom(countdown))

ServicePause ==
    /\ CanCall
    /\ ServiceStep(countdown, Sent(Call("pause", "pause_timer", <<>>)), run)

ServiceStop ==
    /\ CanCall
    /\ ServiceStep(countdown, Sent(Call("stop", "stop_timer", <<>>)), run)

ServiceReset ==
    /\ CanCall
    /\ ServiceStep(countdown, Sent(Call("reset", "stop_timer", <<initialTotalSeconds>>)),
                   run)

ServiceSetTime ==
    /\ CanCall
    /\ \E mins \in 0..MaxMinutes, secs \in SecondsArgs :
          ServiceStep(countdown, Sent(Call("setTime", "stop_timer", <<mins, secs>>)),
                      run)

\* visibilitychange: syncs when the document is visible and the countdown is
\* running or paused.
HandleVisibilityChange ==
    /\ CanCall
    /\ \E visibilityState \in {"visible", "hidden"} :
          /\ visibilityState = "visible"
          /\ countdown.isRunning \/ countdown.isPaused
          /\ ServiceStep(countdown,
                         Sent(Call("sync", "get_timer_remaining",
                                   <<Flag(countdown.isRunning), Flag(countdown.isPaused)>>)),
                         run)

\* window focus: syncs when the countdown is running or paused.
HandleFocus ==
    /\ CanCall
    /\ countdown.isRunning \/ countdown.isPaused
    /\ ServiceStep(countdown,
                   Sent(Call("sync", "get_timer_remaining",
                             <<Flag(countdown.isRunning), Flag(countdown.isPaused)>>)),
                   run)

\* The service answers a command: the operation's continuation runs.
ServiceResolve ==
    \E call \in BagToSet(calls) :
        /\ call.op # "sync"
        /\ ServiceStep(Resolved(countdown, call), Settled(call), Did(run, call.op))

\* The service answers get_timer_remaining.
ServiceSyncResolve ==
    \E call \in BagToSet(calls), remaining \in RemainingMs \cup {Null} :
        /\ call.op = "sync"
        /\ SyncCompletes(call, remaining) => CanComplete
        /\ ServiceStep(Synced(countdown, call, remaining), Settled(call),
                       IF SyncCompletes(call, remaining) THEN Completed(run) ELSE run)

\* The service call fails: the operation's catch logs and gives up.
ServiceReject ==
    \E call \in BagToSet(calls) :
        ServiceStep(countdown, Settled(call), run)

\* The service notifies only once a timer has been asked for.
TimerTick ==
    /\ run.started
    /\ \E remaining_ms \in RemainingMs :
          ServiceStep(ticked(countdown, remaining_ms), calls, run)

TimerDone ==
    /\ run.started
    /\ CanComplete
    /\ ServiceStep(done(countdown), calls,
                   [Completed(run) EXCEPT !.dones = @ + 1])

NextService ==
    \/ ServiceStart
    \/ ServicePause
    \/ ServiceStop
    \/ ServiceReset
    \/ ServiceSetTime
    \/ HandleVisibilityChange
    \/ HandleFocus
    \/ ServiceResolve
    \/ ServiceSyncResolve
    \/ ServiceReject
    \/ TimerTick
    \/ TimerDone

\* ---------------------------------------------------------- session cycle

Session(current, count, cycles, active) ==
    [currentSession |-> current, sessionCount |-> count,
     totalCycles |-> cycles, isActive |-> active]

InitialSession == Session("focus", 0, 0, FALSE)

Config(focus, break) == [focusMinutes |-> focus, breakMinutes |-> break]

\* The state updaters of usePomodoro: `prev` is the state with the pending
\* updates applied, as React hands it to a functional updater.
startSession(prev) == [prev EXCEPT !.isActive = TRUE]

pauseSession(prev) == [prev EXCEPT !.isActive = FALSE]

stopSession(prev) == [prev EXCEPT !.isActive = FALSE]

\* Mutant of resetSession: the completed cycles survive the reset.
resetSession_keepsCycles(prev) == Session("focus", 0, prev.totalCycles, FALSE)

resetSession(prev) == Session("focus", 0, 0, FALSE)

\* Mutant of switchToBreak: the switch counts a session.
switchToBreak_counts(prev) ==
    [prev EXCEPT !.currentSession = "break", !.sessionCount = @ + 1, !.isActive = FALSE]

switchToBreak(prev) == [prev EXCEPT !.currentSession = "break", !.isActive = FALSE]

\* Mutant of switchToFocus: a session is counted only when leaving a break.
switchToFocus_fromBreakOnly(prev) ==
    [prev EXCEPT !.currentSession = "focus",
                 !.sessionCount = IF prev.currentSession = "break" THEN @ + 1 ELSE @,
                 !.isActive = FALSE]

switchToFocus(prev) ==
    [prev EXCEPT !.currentSession = "focus", !.sessionCount = @ + 1, !.isActive = FALSE]

\* Mutant of handleSessionComplete: a completed focus session is counted.
handleSessionComplete_countsFocus(currentState, session) ==
    IF session = "focus"
    THEN [currentState EXCEPT !.currentSession = "break", !.sessionCount = @ + 1,
                              !.isActive = FALSE]
    ELSE [currentState EXCEPT !.currentSession = "focus",
                              !.sessionCount = @ + 1,
                              !.totalCycles = @ + 1,
                              !.isActive = FALSE]

\* handleSessionComplete(session) builds the new state from stateRef.current.
handleSessionComplete(currentState, session) ==
    IF session = "focus"
    THEN [currentState EXCEPT !.currentSession = "break", !.isActive = FALSE]
    ELSE [currentState EXCEPT !.currentSession = "focus",
                              !.sessionCount = @ + 1,
                              !.totalCycles = @ + 1,
                              !.isActive = FALSE]

\* Mutant of Callbacks: the cycle is reported before the session.
Callbacks_cycleFirst(session) ==
    IF session = "focus"
    THEN <<"onSessionComplete(focus)">>
    ELSE <<"onCycleComplete", "onSessionComplete(break)">>

\* The callbacks handleSessionComplete(session) invokes, in order.
Callbacks(session) ==
    IF session = "focus"
    THEN <<"onSessionComplete(focus)">>
    ELSE <<"onSessionComplete(break)", "onCycleComplete">>

updateConfig(prev, newConfig) ==
    [k \in DOMAIN prev |-> IF k \in DOMAIN newConfig THEN newConfig[k] ELSE prev[k]]

\* What a call on the stand-alone usePomodoro leaves; stateRef waits for the
\* next render.
PomodoroStep(s, cb) ==
    /\ s.sessionCount <= MaxCycles
    /\ state' = s
    /\ invoked' = cb
    /\ UNCHANGED <<stateRef, config>>
    /\ UNCHANGED <<countdownVars, appVars>>

StartSession == PomodoroStep(startSession(state), <<>>)

PauseSession == PomodoroStep(pauseSession(state), <<>>)

StopSession == PomodoroStep(stopSession(state), <<>>)

ResetSession == PomodoroStep(resetSession(state), <<>>)

SwitchToBreak == PomodoroStep(switchToBreak(state), <<>>)

SwitchToFocus == PomodoroStep(switchToFocus(state), <<>>)

HandleSessionComplete ==
    \E session \in {"focus", "break"} :
        PomodoroStep(handleSessionComplete(stateRef, session), Callbacks(session))

UpdateConfig ==
    \E newConfig \in [{"focusMinutes"} -> 1..MaxMinutes]
                      \cup [{"breakMinutes"} -> 1..MaxMinutes]
                      \cup [{"focusMinutes", "breakMinutes"} -> 1..MaxMinutes] :
        /\ config' = updateConfig(config, newConfig)
        /\ invoked' = <<>>
        /\ UNCHANGED <<state, stateRef>>
        /\ UNCHANGED <<countdownVars, appVars>>

\* The render after a batch of calls, and its effect stateRef.current = state.
Render ==
    /\ stateRef # state
    /\ stateRef' = state
    /\ UNCHANGED <<state, invoked, config>>
    /\ UNCHANGED <<countdownVars, appVars>>

NextPomodoro ==
    \/ StartSession
    \/ PauseSession
    \/ StopSession
    \/ ResetSession
    \/ SwitchToBreak
    \/ SwitchToFocus
    \/ HandleSessionComplete
    \/ UpdateConfig
    \/ Render

\* -------------------------------------------------------------------- App

\* currentTime.minutes (currentTime.seconds is 0)
\* Mutant of CurrentMinutes: the focus duration is used for every session.
CurrentMinutes_alwaysFocus(s, focus, break) == focus

CurrentMinutes(s, focus, break) ==
    IF s.currentSession = "focus" THEN focus ELSE break

\* Mutant of SessionEffectRuns: currentSession is missing from the dependencies.
SessionEffectRuns_ignoresSession(s, focus, break) ==
    <<focus, break>> # <<focusMinutes, breakMinutes>>

\* The session-change effect has to run: currentSession, focusMinutes or
\* breakMinutes differ from the last render's.
SessionEffectRuns(s, focus, break) ==
    <<s.currentSession, focus, break>> # <<state.currentSession, focusMinutes, breakMinutes>>

\* Mutant of OnComplete: every completion is reported as a focus session.
OnComplete_alwaysFocus(fired) ==
    IF fired THEN handleSessionComplete(stateRef, "focus") ELSE state

\* handleSessionCompleteForCountdown: the session of the last render completed.
OnComplete(fired) ==
    IF fired THEN handleSessionComplete(stateRef, state.currentSession) ELSE state

\* What a step of App leaves besides the countdown: the session state, its
\* ref and the configuration after the render and its effects.
AppRendered(s, cb, focus, break) ==
    /\ s.sessionCount <= MaxCycles
    /\ completed' = IF cb # <<>> THEN completed + 1 ELSE completed
    /\ state' = s
    /\ stateRef' = s
    /\ invoked' = cb
    /\ focusMinutes' = focus
    /\ breakMinutes' = break
    /\ config' = updateConfig(config, Config(focus, break))
    /\ initialTotalSeconds' = CurrentMinutes(s, focus, break) * 60 + 0
    /\ UNCHANGED clock

\* App on the local-clock hook.  `c`: the countdown as the handler leaves it;
\* the session-change effect then calls reset() and setTime().
AppLocalStep(c, cleared, fired, focus, break, r) ==
    LET s == OnComplete(fired)
        mins == CurrentMinutes(s, focus, break)
        after == IF SessionEffectRuns(s, focus, break)
                 THEN setTime(reset(c, mins * 60 + 0), mins, 0)
                 ELSE c
    IN  /\ clock = "local"
        /\ countdown' = after
        /\ intervalRef' = IntervalAfter(countdown, after, cleared)
        /\ run' = IF SessionEffectRuns(s, focus, break) THEN Did(r, "setTime") ELSE r
        /\ AppRendered(s, IF fired THEN Callbacks(state.currentSession) ELSE <<>>,
                       focus, break)
        /\ UNCHANGED calls

\* "开始专注" / "开始休息": shown while Idle.
AppStart ==
    /\ IsIdle(countdown)
    /\ state.sessionCount < MaxCycles
    /\ AppLocalStep(start(countdown, initialTotalSeconds), FALSE, FALSE,
                    focusMinutes, breakMinutes, StartedFrom(countdown))

\* "暂停": shown while running and not paused.
AppPause ==
    /\ countdown.isRunning /\ ~countdown.isPaused
    /\ AppLocalStep(pause(countdown), FALSE, FALSE, focusMinutes, breakMinutes,
                    Did(run, "pause"))

\* "继续": shown while paused.
AppContinue ==
    /\ countdown.isPaused
    /\ AppLocalStep(start(countdown, initialTotalSeconds), FALSE, FALSE,
                    focusMinutes, breakMinutes, StartedFrom(countdown))

\* "退出": shown while running or paused.
AppExit ==
    /\ countdown.isRunning \/ countdown.isPaused
    /\ AppLocalStep(reset(countdown, initialTotalSeconds), FALSE, FALSE,
                    focusMinutes, breakMinutes, Did(run, "reset"))

AppFocusMinutesChange ==
    \E mins \in 1..MaxMinutes :
        AppLocalStep(countdown, FALSE, FALSE, mins, breakMinutes, run)

AppBreakMinutesChange ==
    \E mins \in 1..MaxMinutes :
        AppLocalStep(countdown, FALSE, FALSE, focusMinutes, mins, run)

AppTick ==
    /\ intervalRef
    /\ AppLocalStep(tick(countdown), ~TickCounts(countdown), ~TickCounts(countdown),
                    focusMinutes, breakMinutes,
                    IF TickCounts(countdown) THEN Ticked(run) ELSE Completed(Ticked(run)))

NextApp ==
    \/ AppStart
    \/ AppPause
    \/ AppContinue
    \/ AppExit
    \/ AppFocusMinutesChange
    \/ AppBreakMinutesChange
    \/ AppTick

\* App on the service-backed hook.  `c`: the countdown as the handler leaves
\* it; `pending`: the calls awaiting an answer after the handler; the
\* session-change effect then calls reset() and setTime(), each of which
\* sends stop_timer and waits.
AppServiceStep(c, pending, fired, focus, break, r) ==
    LET s == OnComplete(fired)
        mins == CurrentMinutes(s, focus, break)
        after == IF SessionEffectRuns(s, focus, break)
                 THEN pending (+) SetToBag({Call("reset", "stop_timer", <<mins * 60 + 0>>)})
                              (+) SetToBag({Call("setTime", "stop_timer", <<mins, 0>>)})
                 ELSE pending
    IN  /\ clock = "service"
        /\ BagCardinality(after) <= MaxAppCalls
        /\ countdown' = c
        /\ calls' = after
        /\ run' = r
        /\ AppRendered(s, IF fired THEN Callbacks(state.currentSession) ELSE <<>>,
                       focus, break)
        /\ UNCHANGED intervalRef

AppServiceStart ==
    /\ IsIdle(countdown)
    /\ state.sessionCount < MaxCycles
    /\ AppServiceStep(StartBefore(countdown, initialTotalSeconds),
                      Sent(StartCall(countdown, initialTotalSeconds)), FALSE,
                      focusMinutes, breakMinutes, StartedFrom(countdown))

AppServicePause ==
    /\ countdown.isRunning /\ ~countdown.isPaused
    /\ AppServiceStep(countdown, Sent(Call("pause", "pause_timer", <<>>)), FALSE,
                      focusMinutes, breakMinutes, run)

AppServiceContinue ==
    /\ countdown.isPaused
    /\ AppServiceStep(StartBefore(countdown, initialTotalSeconds),
                      Sent(StartCall(countdown, initialTotalSeconds)), FALSE,
                      focusMinutes, breakMinutes, StartedFrom(countdown))

AppServiceExit ==
    /\ countdown.isRunning \/ countdown.isPaused
    /\ AppServiceStep(countdown,
                      Sent(Call("reset", "stop_timer", <<initialTotalSeconds>>)), FALSE,
                      focusMinutes, breakMinutes, run)

AppServiceFocusMinutesChange ==
    \E mins \in 1..MaxMinutes :
        AppServiceStep(countdown, calls, FALSE, mins, breakMinutes, run)

AppServiceBreakMinutesChange ==
    \E mins \in 1..MaxMinutes :
        AppServiceStep(countdown, calls, FALSE, focusMinutes, mins, run)

AppServiceVisibilityChange ==
    \E visibilityState \in {"visible", "hidden"} :
        /\ visibilityState = "visible"
        /\ countdown.isRunning \/ countdown.isPaused
        /\ AppServiceStep(countdown,
                          Sent(Call("sync", "get_timer_remaining",
                                    <<Flag(countdown.isRunning), Flag(countdown.isPaused)>>)),
                          FALSE, focusMinutes, breakMinutes, run)

AppServiceFocus ==
    /\ countdown.isRunning \/ countdown.isPaused
    /\ AppServiceStep(countdown,
                      Sent(Call("sync", "get_timer_remaining",
                                <<Flag(countdown.isRunning), Flag(countdown.isPaused)>>)),
                      FALSE, focusMinutes, breakMinutes, run)

AppServiceResolve ==
    \E call \in BagToSet(calls) :
        /\ call.op # "sync"
        /\ AppServiceStep(Resolved(countdown, call), Settled(call), FALSE,
                          focusMinutes, breakMinutes, Did(run, call.op))

AppServiceSyncResolve ==
    \E call \in BagToSet(calls), remaining \in RemainingMs \cup {Null} :
        /\ call.op = "sync"
        /\ SyncCompletes(call, remaining) => CanComplete
        /\ AppServiceStep(Synced(countdown, call, remaining), Settled(call),
                          SyncCompletes(call, remaining), focusMinutes, breakMinutes,
                          IF SyncCompletes(call, remaining) THEN Completed(run) ELSE run)

AppServiceReject ==
    \E call \in BagToSet(calls) :
        AppServiceStep(countdown, Settled(call), FALSE, focusMinutes, breakMinutes, run)

AppTimerTick ==
    /\ run.started
    /\ \E remaining_ms \in RemainingMs :
          AppServiceStep(ticked(countdown, remaining_ms), calls, FALSE,
                         focusMinutes, breakMinutes, run)

AppTimerDone ==
    /\ run.started
    /\ CanComplete
    /\ AppServiceStep(done(countdown), calls, TRUE, focusMinutes, breakMinutes,
                      [Completed(run) EXCEPT !.dones = @ + 1])

NextAppService ==
    \/ AppServiceStart
    \/ AppServicePause
    \/ AppServiceContinue
    \/ AppServiceExit
    \/ AppServiceFocusMinutesChange
    \/ AppServiceBreakMinutesChange
    \/ AppServiceVisibilityChange
    \/ AppServiceFocus
    \/ AppServiceResolve
    \/ AppServiceSyncResolve
    \/ AppServiceReject
    \/ AppTimerTick
    \/ AppTimerDone

\* ------------------------------------------------------- specifications

\* A mounted useCountdown, stand-alone: Idle at its initial time.
InitCountdown(c) ==
    /\ clock = c
    /\ \E t \in InitialTimes :
          /\ initialTotalSeconds = t[1] * 60 + t[2]
          /\ countdown = Countdown(t[1] * 60 + t[2], FALSE, FALSE, FALSE)
    /\ intervalRef = FALSE
    /\ calls = EmptyBag
    /\ run = Mounted
    /\ completed = 0
    /\ state = InitialSession
    /\ stateRef = InitialSession
    /\ invoked = <<>>
    /\ config = Config(1, 1)
    /\ focusMinutes = 1
    /\ breakMinutes = 1

Init == InitCountdown("local") \/ InitCountdown("service")

Next == NextLocal \/ NextService

\* useCountdown alone, on either clock.
Spec == Init /\ [][Next]_vars

\* The local-clock useCountdown whose setTime is never called.
NextLocalUnset ==
    \/ LocalStart
    \/ LocalPause
    \/ LocalStop
    \/ LocalReset
    \/ LocalTick

SpecLocalUnset == InitCountdown("local") /\ [][NextLocalUnset]_vars

\* The service-backed useCountdown whose setTime is never called.
NextServiceUnset ==
    \/ ServiceStart
    \/ ServicePause
    \/ ServiceStop
    \/ ServiceReset
    \/ HandleVisibilityChange
    \/ HandleFocus
    \/ ServiceResolve
    \/ ServiceSyncResolve
    \/ ServiceReject
    \/ TimerTick
    \/ TimerDone

\* useCountdown, on either clock, counting the time it was mounted with, and
\* its clock running: an interval that is set keeps firing (setInterval), and
\* the timer service delivers the timer://done of a timer that was asked for.
SpecFair ==
    /\ Init
    /\ [][NextLocalUnset \/ NextServiceUnset]_vars
    /\ WF_vars(LocalTick)
    /\ WF_vars(TimerDone)

\* A mounted usePomodoro, stand-alone.
InitPomodoro ==
    /\ state = InitialSession
    /\ stateRef = InitialSession
    /\ invoked = <<>>
    /\ \E focus \in 1..MaxMinutes, break \in 1..MaxMinutes :
          /\ config = Config(focus, break)
          /\ focusMinutes = focus
          /\ breakMinutes = break
    /\ clock = "local"
    /\ initialTotalSeconds = 0
    /\ countdown = Countdown(0, FALSE, FALSE, FALSE)
    /\ intervalRef = FALSE
    /\ calls = EmptyBag
    /\ run = Mounted
    /\ completed = 0

SpecPomodoro == InitPomodoro /\ [][NextPomodoro]_vars

\* App mounted on the local-clock hook: focus session, countdown Idle at
\* focusMinutes (the mount effect has called reset() and setTime()).
InitApp ==
    /\ clock = "local"
    /\ \E focus \in 1..MaxMinutes, break \in 1..MaxMinutes :
          /\ focusMinutes = focus
          /\ breakMinutes = break
          /\ config = Config(focus, break)
          /\ initialTotalSeconds = focus * 60 + 0
          /\ countdown = setTime(reset(Countdown(focus * 60 + 0, FALSE, FALSE, FALSE),
                                       focus * 60 + 0), focus, 0)
    /\ state = InitialSession
    /\ stateRef = InitialSession
    /\ invoked = <<>>
    /\ intervalRef = FALSE
    /\ calls = EmptyBag
    /\ run = Mounted
    /\ completed = 0

SpecApp == InitApp /\ [][NextApp]_vars

\* App mounted on the service-backed hook: the reset() and setTime() of the
\* mount effect are still waiting for stop_timer.
InitAppService ==
    /\ clock = "service"
    /\ \E focus \in 1..MaxMinutes, break \in 1..MaxMinutes :
          /\ focusMinutes = focus
          /\ breakMinutes = break
          /\ config = Config(focus, break)
          /\ initialTotalSeconds = focus * 60 + 0
          /\ countdown = Countdown(focus * 60 + 0, FALSE, FALSE, FALSE)
          /\ calls = SetToBag({Call("reset", "stop_timer", <<focus * 60 + 0>>)})
                     (+) SetToBag({Call("setTime", "stop_timer", <<focus, 0>>)})
    /\ state = InitialSession
    /\ stateRef = InitialSession
    /\ invoked = <<>>
    /\ intervalRef = FALSE
    /\ run = Mounted
    /\ completed = 0

SpecAppService == InitAppService /\ [][NextAppService]_vars

\* ------------------------------------------------------------------ claims

\* Paused: entered by pause() from Running, left by start(), reset(), setTime().
InPaused(c) == c.isPaused /\ ~c.isRunning /\ ~c.isEnded

\* C1 (Spec): in the local-clock countdown, a run started from Idle with
\* n >= 1 seconds and followed only by interval firings invokes onComplete at
\* most once; it has invoked it exactly once when it is ended, it is then at
\* 0 seconds with the interval cleared (no later firing can invoke it again),
\* and until then the interval keeps firing.
C1_CompletesExactlyOnce ==
    (clock = "local" /\ run.from >= 1) =>
        /\ run.completions <= 1
        /\ countdown.isEnded <=> run.completions = 1
        /\ countdown.isEnded =>
              countdown.totalSeconds = 0 /\ ~countdown.isRunning /\ ~intervalRef
        /\ ~countdown.isEnded => countdown.isRunning /\ intervalRef

C1_Witness ==
    /\ clock = "local"
    /\ run.from = 3
    /\ countdown = Countdown(0, FALSE, FALSE, TRUE)
    /\ run.completions = 1
    /\ ~intervalRef

\* C2 (SpecAppService): a second timer://done for the same run (no start()
\* since the first) neither invokes a callback of the session cycle nor
\* changes the session state.
C2_DuplicateDoneIgnored ==
    [][(run.dones >= 1 /\ AppTimerDone) => (invoked' = <<>> /\ state' = state)]_vars

\* C3 (SpecPomodoro): handleSessionComplete("focus") leaves currentSession =
\* break with sessionCount and totalCycles as in the session state of the last
\* render; handleSessionComplete("break") leaves focus with both counters one
\* higher; both leave isActive false.
C3_SessionCompleteTransition ==
    [][\A session \in {"focus", "break"} :
          PomodoroStep(handleSessionComplete(stateRef, session), Callbacks(session)) =>
              /\ ~state'.isActive
              /\ session = "focus" =>
                    /\ state'.currentSession = "break"
                    /\ state'.sessionCount = stateRef.sessionCount
                    /\ state'.totalCycles = stateRef.totalCycles
              /\ session = "break" =>
                    /\ state'.currentSession = "focus"
                    /\ state'.sessionCount = stateRef.sessionCount + 1
                    /\ state'.totalCycles = stateRef.totalCycles + 1]_vars

C3_Witness ==
    /\ invoked = Callbacks("break")
    /\ stateRef = Session("break", 0, 0, FALSE)
    /\ state = Session("focus", 1, 1, FALSE)

\* C4 (Spec): pause() keeps the remaining seconds r; start() on the paused
\* countdown keeps r too and leaves it running (the local clock with its
\* interval set; the service-backed hook sends resume_timer, and is running
\* with r once that resolved); the next interval firing counts from r.
C4_ResumeKeepsRemaining ==
    [][/\ (countdown.isRunning /\ (LocalPause \/ ServicePause)) =>
             countdown'.totalSeconds = countdown.totalSeconds
       /\ (InPaused(countdown) /\ LocalStart) =>
             /\ countdown' = Countdown(countdown.totalSeconds, TRUE, FALSE, FALSE)
             /\ intervalRef'
       /\ (InPaused(countdown) /\ ServiceStart) =>
             /\ countdown' = countdown
             /\ calls' = Sent(Call("start", "resume_timer", <<>>))
       /\ \A call \in BagToSet(calls) :
             (/\ call.cmd = "resume_timer"
              /\ ServiceStep(Resolved(countdown, call), Settled(call), Did(run, call.op))) =>
                 /\ countdown'.totalSeconds = countdown.totalSeconds
                 /\ countdown'.isRunning /\ ~countdown'.isPaused
       /\ (run.resumed /\ run.completions = 0 /\ countdown.totalSeconds > 0 /\ LocalTick) =>
             countdown'.totalSeconds = countdown.totalSeconds - 1]_vars

C4_Witness ==
    /\ clock = "local"
    /\ run.op = "start"
    /\ run.resumed
    /\ initialTotalSeconds = 3
    /\ countdown = Countdown(1, TRUE, FALSE, FALSE)
    /\ intervalRef

\* C5 (Spec): setTime(minutes, seconds), from any phase, leaves
\* minutes * 60 + seconds remaining and isRunning, isPaused and isEnded all
\* false (the service-backed hook once its stop_timer resolved).
C5_SetTimeSetsIdle ==
    [][/\ \A mins \in 0..MaxMinutes, secs \in SecondsArgs :
             LocalStep(setTime(countdown, mins, secs), FALSE, Did(run, "setTime")) =>
                 countdown' = Countdown(mins * 60 + secs, FALSE, FALSE, FALSE)
       /\ \A call \in BagToSet(calls) :
             (/\ call.op = "setTime"
              /\ ServiceStep(Resolved(countdown, call), Settled(call), Did(run, call.op))) =>
                 countdown' = Countdown(call.args[1] * 60 + call.args[2],
                                        FALSE, FALSE, FALSE)]_vars

C5_Witness ==
    /\ clock = "local"
    /\ run.op = "setTime"
    /\ initialTotalSeconds = 3
    /\ countdown = Countdown(119, FALSE, FALSE, FALSE)

\* C6 (Spec): a local-clock countdown started from Idle with N >= 1 seconds
\* is ended, with onComplete invoked, after exactly N interval firings.
C6_EndsAfterNTicks ==
    (clock = "local" /\ run.from >= 1 /\ run.ticks = run.from) =>
        (countdown.isEnded /\ run.completions = 1)

\* C7 (SpecApp): the interval firing that completes a run switches the
\* session and leaves the countdown Idle at 60 times the minutes of the new
\* session.
C7_CompletionSwitchesAndRearms ==
    [][(~TickCounts(countdown) /\ AppTick) =>
          /\ state'.currentSession # state.currentSession
          /\ countdown' = Countdown(60 * (IF state'.currentSession = "break"
                                           THEN breakMinutes ELSE focusMinutes),
                                     FALSE, FALSE, FALSE)
          /\ ~intervalRef']_vars

C7_Witness ==
    /\ run.completions = 1
    /\ state.currentSession = "break"
    /\ focusMinutes = 1
    /\ breakMinutes = 2
    /\ countdown = Countdown(120, FALSE, FALSE, FALSE)

\* C8 (SpecApp): after k focus runs and k break runs completed in turn the
\* session is focus with sessionCount = totalCycles = k; after a further
\* focus run it is break with the same counters.
C8_CyclesCounted ==
    /\ state.sessionCount = completed \div 2
    /\ state.totalCycles = completed \div 2
    /\ state.currentSession = (IF completed % 2 = 0 THEN "focus" ELSE "break")

C8_Witness ==
    /\ completed = 2
    /\ state = Session("focus", 1, 1, FALSE)
    /\ IsIdle(countdown)

\* C9 (Spec): after pause() on a running countdown, while it is paused and no
\* other operation has been called, neither an interval firing nor a
\* timer://tick notification changes the remaining seconds.
C9_PausedIgnoresTicks ==
    [][(/\ run.op = "pause" /\ run.was = "Running"
        /\ InPaused(countdown) /\ calls = EmptyBag
        /\ (LocalTick \/ TimerTick)) =>
          countdown'.totalSeconds = countdown.totalSeconds]_vars

\* C10 (Spec): stop() leaves isRunning and isPaused false and isEnded true
\* whatever the phase and the remaining seconds, and as long as no other
\* operation is called neither an interval firing nor a timer://tick
\* notification changes the remaining seconds.
C10_StopEndsAndFreezes ==
    [][/\ LocalStop =>
             countdown' = Countdown(countdown.totalSeconds, FALSE, FALSE, TRUE)
       /\ \A call \in BagToSet(calls) :
             (/\ call.op = "stop"
              /\ ServiceStep(Resolved(countdown, call), Settled(call), Did(run, call.op))) =>
                 countdown' = Countdown(countdown.totalSeconds, FALSE, FALSE, TRUE)
       /\ (run.op = "stop" /\ calls = EmptyBag /\ (LocalTick \/ TimerTick)) =>
             countdown'.totalSeconds = countdown.totalSeconds]_vars

\* C11 (Spec): reset() leaves the initial seconds remaining and isRunning,
\* isPaused and isEnded false whatever the phase (the local clock with its
\* interval cleared; the service-backed hook once its stop_timer resolved),
\* and as long as no other operation is called neither an interval firing
\* nor a timer://tick notification changes the remaining seconds.
C11_ResetRestoresAndFreezes ==
    [][/\ LocalReset =>
             /\ countdown' = Countdown(initialTotalSeconds, FALSE, FALSE, FALSE)
             /\ ~intervalRef'
       /\ \A call \in BagToSet(calls) :
             (/\ call.op = "reset"
              /\ ServiceStep(Resolved(countdown, call), Settled(call), Did(run, call.op))) =>
                 countdown' = Countdown(initialTotalSeconds, FALSE, FALSE, FALSE)
       /\ (run.op = "reset" /\ calls = EmptyBag /\ (LocalTick \/ TimerTick)) =>
             countdown'.totalSeconds = countdown.totalSeconds]_vars

C13_SetTimeSetsInitial ==
    [][/\ (run.op = "setTime" /\ LocalReset) =>
             countdown'.totalSeconds = countdown.totalSeconds
       /\ \A call \in BagToSet(calls) :
             (/\ run.op = "setTime"
              /\ call.op = "reset"
              /\ ServiceStep(Resolved(countdown, call), Settled(call), Did(run, call.op))) =>
                 countdown'.totalSeconds = countdown.totalSeconds]_vars

\* C14 (SpecLocalUnset): in the local-clock countdown, even when setTime is
\* never called, 0 seconds remain only when the countdown is ended, or when it
\* is running and not paused (the next interval firing ends it).
C14_ZeroOnlyWhenEnded ==
    countdown.totalSeconds = 0 =>
        (countdown.isEnded \/ (countdown.isRunning /\ ~countdown.isPaused))

\* C15 (SpecPomodoro): a step in which sessionCount or totalCycles increases
\* changes currentSession from break to focus.
C15_CountersOnBreakToFocus ==
    [][(state'.sessionCount > state.sessionCount
        \/ state'.totalCycles > state.totalCycles) =>
          (state.currentSession = "break" /\ state'.currentSession = "focus")]_vars

\* C16 (SpecApp): a change of focusMinutes or breakMinutes while the countdown
\* is running or paused leaves the countdown as it is.
C16_ConfigChangeKeepsCountdown ==
    [][((countdown.isRunning \/ countdown.isPaused)
        /\ (AppFocusMinutesChange \/ AppBreakMinutesChange)) =>
          countdown' = countdown]_vars

\* C17 (Spec): an operation of the service-backed hook whose call fails is
\* the part of the operation before the await followed by its catch: neither
\* changes the countdown.
C17_FailedCallKeepsState ==
    [][/\ (ServiceStart \/ ServicePause \/ ServiceStop \/ ServiceReset \/ ServiceSetTime) =>
             countdown' = countdown
       /\ ServiceReject => countdown' = countdown]_vars

\* C18 (Spec): when the call of start() fails, the countdown is running all
\* the same.
C18_FailedStartStillRuns ==
    [][\A call \in BagToSet(calls) :
          (call.op = "start" /\ ServiceStep(countdown, Settled(call), run)) =>
              countdown'.isRunning]_vars

\* C19 (Spec): once reset() or setTime() has cancelled a running or paused
\* countdown, and as long as no other operation is called, neither an
\* interval firing nor a timer://tick notification changes the remaining
\* seconds.
C19_NoLateTick ==
    [][(/\ run.op \in {"reset", "setTime"}
        /\ run.was \in {"Running", "Paused"}
        /\ calls = EmptyBag
        /\ (LocalTick \/ TimerTick)) =>
          countdown'.totalSeconds = countdown.totalSeconds]_vars

\* C20 (Spec): once reset(), setTime() or stop() has cancelled a running or
\* paused countdown, and as long as no other operation is called, a
\* timer://done notification neither changes the countdown nor invokes
\* onComplete.
C20_LateDoneDiscarded ==
    [][(/\ run.op \in {"reset", "setTime", "stop"}
        /\ run.was \in {"Running", "Paused"}
        /\ calls = EmptyBag
        /\ TimerDone) =>
          (countdown' = countdown /\ run'.completions = run.completions)]_vars

\* C21 (Spec): in the service-backed hook, between two calls of start(), a
\* resync answered after a timer://done was processed does not invoke
\* onComplete, and a timer://done processed after a resync invoked onComplete
\* does not invoke it again.
C21_ResyncAndDoneCompleteOnce ==
    [][/\ (run.dones >= 1 /\ ServiceSyncResolve) => run'.completions = run.completions
       /\ (run.completions > run.dones /\ TimerDone) =>
             run'.completions = run.completions]_vars

\* C22 (Spec): minutes is the floor of totalSeconds / 60 and seconds the rest:
\* minutes * 60 + seconds = totalSeconds with 0 <= seconds <= 59, the remaining
\* seconds never being negative.
C22_MinutesSecondsSplit ==
    /\ countdown.totalSeconds >= 0
    /\ minutes(countdown) * 60 + seconds(countdown) = countdown.totalSeconds
    /\ seconds(countdown) \in 0..59
    /\ minutes(countdown) >= 0

C22_Witness ==
    /\ clock = "local"
    /\ run.from = 60
    /\ run.ticks = 1
    /\ countdown.totalSeconds = 59
    /\ minutes(countdown) = 0
    /\ seconds(countdown) = 59

\* C23 (Spec): in the service-backed hook start() sends resume_timer exactly
\* when the countdown is paused and not ended, and otherwise start_timer with
\* totalMs = 1000 * (the initial seconds when ended, else the remaining
\* seconds); pause() sends pause_timer; stop(), reset() and setTime() send
\* stop_timer; pause, stop, reset and setTime change no state before the
\* answer.
C23_CommandsSent ==
    [][/\ ServiceStart =>
             \E call \in BagToSet(calls') :
                /\ calls' = Sent(call)
                /\ call.cmd = (IF countdown.isPaused /\ ~countdown.isEnded
                               THEN "resume_timer" ELSE "start_timer")
                /\ call.cmd = "start_timer" =>
                      call.args = <<1000 * (IF countdown.isEnded THEN initialTotalSeconds
                                            ELSE countdown.totalSeconds)>>
       /\ ServicePause =>
             /\ \E call \in BagToSet(calls') :
                   calls' = Sent(call) /\ call.cmd = "pause_timer"
             /\ countdown' = countdown
       /\ (ServiceStop \/ ServiceReset \/ ServiceSetTime) =>
             /\ \E call \in BagToSet(calls') :
                   calls' = Sent(call) /\ call.cmd = "stop_timer"
             /\ countdown' = countdown]_vars

C23_Witness ==
    /\ clock = "service"
    /\ InPaused(countdown)
    /\ run.op = "pause"
    /\ run.was = "Running"
    /\ calls = SetToBag({Call("start", "resume_timer", <<>>)})

\* C24 (SpecPomodoro): handleSessionComplete("break") invokes
\* onSessionComplete("break") and then onCycleComplete(), each once;
\* handleSessionComplete("focus") invokes onSessionComplete("focus") once and
\* not onCycleComplete; no other call invokes a callback.
C24_CallbacksInOrder ==
    [][/\ \A session \in {"focus", "break"} :
             PomodoroStep(handleSessionComplete(stateRef, session), Callbacks(session)) =>
                invoked' = (IF session = "break"
                            THEN <<"onSessionComplete(break)", "onCycleComplete">>
                            ELSE <<"onSessionComplete(focus)">>)
       /\ ~HandleSessionComplete => (invoked' = <<>> \/ invoked' = invoked)]_vars

C24_Witness ==
    /\ invoked = <<"onSessionComplete(break)", "onCycleComplete">>
    /\ state.currentSession = "focus"
    /\ state.totalCycles = 1

\* C25 (SpecPomodoro): handleSessionComplete(session) leaves its transition
\* applied to the state the preceding call left, so that no update made just
\* before it is lost.
C25_SequentialReducerStep ==
    [][\A session \in {"focus", "break"} :
          PomodoroStep(handleSessionComplete(stateRef, session), Callbacks(session)) =>
             state' = handleSessionComplete(state, session)]_vars

\* C26 (SpecPomodoro): handleSessionComplete(session) called again straight
\* after handleSessionComplete(session), with or without a render between the
\* two calls, leaves the state the first call left.
C26_SecondCallChangesNothing ==
    [][\A session \in {"focus", "break"} :
          (/\ invoked = Callbacks(session)
           /\ PomodoroStep(handleSessionComplete(stateRef, session), Callbacks(session))) =>
             state' = state]_vars

\* C27 (SpecFair): a countdown that start() set running, and whose run has not
\* completed, eventually is ended with onComplete invoked, unless pause(),
\* stop(), reset() or setTime() takes effect first.
C27_RunningEventuallyEnds ==
    (/\ countdown.isRunning
     /\ ~countdown.isPaused
     /\ ~countdown.isEnded
     /\ run.op = "start"
     /\ run.completions = 0)
       ~> (\/ countdown.isEnded /\ run.completions >= 1
           \/ run.op # "start")

C27_Witness ==
    /\ countdown.isEnded
    /\ ~countdown.isRunning
    /\ run.op = "start"
    /\ run.was = "Idle"
    /\ run.completions = 1
    /\ run.ticks >= 1

\* C28 (Spec): a countdown that is idle or ended is not paused by the next
\* step, pause() included.
C28_PausedOnlyFromRunning ==
    [][Phase(countdown) \in {"Idle", "Ended"} => Phase(countdown') # "Paused"]_vars

\* C29 (Spec): at most one of isRunning, isPaused and isEnded is true, as long
\* as pause() has only taken effect on a running countdown.
C29_AtMostOneFlag ==
    (run.op = "pause" => run.was = "Running") =>
       Cardinality({f \in {"isRunning", "isPaused", "isEnded"} : countdown[f]}) <= 1

\* C30 (Spec): a step that ends the countdown, other than stop() taking effect,
\* invokes onComplete exactly once.
C30_EndedMeansCompleted ==
    [][(/\ ~countdown.isEnded
        /\ countdown'.isEnded
        /\ ~LocalStop
        /\ \A call \in BagToSet(calls) :
              call.op = "stop" =>
                 ~ServiceStep(Resolved(countdown, call), Settled(call), Did(run, call.op))) =>
          run'.completions = run.completions + 1]_vars

\* C31 (SpecAppService): in App every step that ends the countdown runs the
\* session-change effect, so that a reset() or setTime() which returns the
\* countdown to Idle is under way once the countdown is ended.
C31_EndedIsTransient ==
    [][(~countdown.isEnded /\ countdown'.isEnded) =>
          \E call \in BagToSet(calls') : call.op \in {"reset", "setTime"}]_vars

\* C32 (SpecPomodoro): switchToFocus() adds exactly 1 to sessionCount whatever
\* the current session is, sets currentSession to focus and isActive to false,
\* and leaves totalCycles unchanged.
C32_SwitchToFocusCounts ==
    [][SwitchToFocus =>
          /\ state'.sessionCount = state.sessionCount + 1
          /\ state'.currentSession = "focus"
          /\ state'.isActive = FALSE
          /\ state'.totalCycles = state.totalCycles]_vars

C32_Witness ==
    /\ state = Session("focus", 2, 0, FALSE)
    /\ stateRef = Session("focus", 1, 0, FALSE)
    /\ invoked = <<>>

\* C33 (SpecPomodoro): startSession, pauseSession and stopSession change only
\* isActive (to true, false, false); switchToBreak changes only currentSession
\* (to break) and isActive (to false); updateConfig changes no field of the
\* session state.
C33_FrameOfSessionCalls ==
    [][/\ StartSession => state' = [state EXCEPT !.isActive = TRUE]
       /\ PauseSession => state' = [state EXCEPT !.isActive = FALSE]
       /\ StopSession => state' = [state EXCEPT !.isActive = FALSE]
       /\ SwitchToBreak =>
             /\ state'.currentSession = "break"
             /\ state'.isActive = FALSE
             /\ state'.sessionCount = state.sessionCount
             /\ state'.totalCycles = state.totalCycles
       /\ UpdateConfig => state' = state]_vars

C33_Witness ==
    /\ state = Session("break", 1, 1, FALSE)
    /\ stateRef = Session("focus", 1, 1, TRUE)
    /\ invoked = <<>>

\* C34 (SpecPomodoro): totalCycles never exceeds sessionCount, also when
\* handleSessionComplete builds the state from a stale stateRef.
C34_CyclesAtMostSessions == state.totalCycles <= state.sessionCount

C34_Witness ==
    /\ state = Session("focus", 1, 1, FALSE)
    /\ stateRef = Session("focus", 0, 0, FALSE)
    /\ invoked = <<"onSessionComplete(break)", "onCycleComplete">>

\* C35 (Spec): stop() taking effect invokes no onComplete and leaves the
\* remaining seconds as they are; with no completion reported, App's onComplete
\* wiring leaves the session state as it is.
C35_StopDoesNotComplete ==
    [][(\/ LocalStop
        \/ \E call \in BagToSet(calls) :
              /\ call.op = "stop"
              /\ ServiceStep(Resolved(countdown, call), Settled(call), Did(run, call.op))) =>
          /\ run'.completions = run.completions
          /\ countdown'.totalSeconds = countdown.totalSeconds
          /\ OnComplete(run'.completions # run.completions) = state]_vars

C35_Witness ==
    /\ clock = "local"
    /\ countdown = Countdown(2, FALSE, FALSE, TRUE)
    /\ run.op = "stop"
    /\ run.was = "Running"
    /\ run.completions = 0

\* C36 (SpecApp): in App an idle countdown shows 60 * focusMinutes in a focus
\* session and 60 * breakMinutes in a break.
C36_IdleShowsSessionTime ==
    IsIdle(countdown) =>
       countdown.totalSeconds = (IF state.currentSession = "focus"
                                 THEN 60 * focusMinutes ELSE 60 * breakMinutes)

C36_Witness ==
    /\ IsIdle(countdown)
    /\ state.currentSession = "break"
    /\ focusMinutes = 1
    /\ breakMinutes = 2
    /\ countdown.totalSeconds = 120
    /\ completed = 1

\* C37 (Spec): on the local clock the remaining seconds are never negative,
\* and a firing of the interval lowers them by exactly 1 when they are
\* positive and leaves them at 0 otherwise.
C37_TicksCountDownToZero ==
    [][/\ clock = "local" => (countdown.totalSeconds >= 0 /\ countdown'.totalSeconds >= 0)
       /\ LocalTick =>
             countdown'.totalSeconds = (IF countdown.totalSeconds > 0
                                        THEN countdown.totalSeconds - 1 ELSE 0)]_vars

C37_Witness ==
    /\ clock = "local"
    /\ countdown = Countdown(0, TRUE, FALSE, FALSE)
    /\ run.from = 3
    /\ run.ticks = 3
    /\ run.completions = 0
====
